---- MODULE Spec2Model ----
(***************************************************************************)
(* flask-restalchemy: the REST resource layer (resources.py) and the       *)
(* DateTime serializer (serializer.py) as state machines.                  *)
(*                                                                         *)
(* The repository is the committed content of the database: the stored     *)
(* parents, the stored children with their fields, the to-many relation    *)
(* between them and the autoincrement key counter.  One request is handled *)
(* at a time (the handlers are synchronous and the session is request      *)
(* scoped): a handler action takes the repository from pc = "idle" to      *)
(* pc = "done" and records the request, the repository before the request, *)
(* the session/serializer/hook calls it made and the unpacked response;    *)
(* Reply hands the response out and returns to "idle".                     *)
(***************************************************************************)
EXTENDS Integers, Sequences, FiniteSets, TLC

VARIABLES
    parents,    \* primary keys of the stored parent entities
    children,   \* stored child entities: primary key -> [name, age]
    rel,        \* the relation collections: <<parent key, child key>>
    nextId,     \* next autoincrement primary key of the child table
    pc,         \* "idle" | "done"
    req,        \* the request being answered
    pre,        \* the repository as it was when the request arrived
    log,        \* session, serializer and hook calls made by the request
    loaded,     \* the document the request handed to the serializer's load
    deleted,    \* history: keys of the children removed so far
    resp,       \* <<data, code, headers>> as dispatch_request returns it
    value,      \* unpack: the view's return value
    unpacked,   \* unpack: its result
    decorators, \* request_decorators handed to __init__
    chain,      \* decorators around dispatch_request, outermost first
    phase,      \* "init" | "in" | "out" | "done"
    depth,      \* how many decorators the running dispatch is inside of
    trace,      \* enter/exit events of the running dispatch
    dt,         \* the datetime handed to DateTimeSerializer.dump
    wire,       \* the serialized datetime
    back,       \* what DateTimeSerializer.load made of wire
    given,      \* the arguments handed to a handler's constructor
    built       \* what the constructor left behind

varsRes == <<parents, children, rel, nextId, pc, req, pre, log, loaded, deleted, resp>>
varsUnpack == <<value, unpacked>>
varsDeco == <<decorators, chain, phase, depth, trace>>
varsDT == <<dt, wire, back>>
varsCtor == <<given, built>>
vars == <<parents, children, rel, nextId, pc, req, pre, log, loaded, deleted, resp,
          value, unpacked, decorators, chain, phase, depth, trace, dt, wire, back,
          given, built>>

(***************************************************************************)
(* Bounds of the model.                                                    *)
(***************************************************************************)
MaxId == 2          \* child keys ever assigned: 1..MaxId
MaxParent == 2      \* parent keys: 1..MaxParent
MaxVal == 1         \* non-null field values: 1..MaxVal

\* Python's None.
NULL == -1

NOT_FOUND_ERROR == "Resource not found in the database!"
NOT_ALLOWED == "POST not allowed for property resources"

ParentIds == 1..MaxParent
\* Keys a request may name: 0 is never the key of a stored entity.
ReqIds == 0..MaxId
ReqParentIds == 0..MaxParent
DataFields == {"name", "age"}
Vals == {NULL} \cup (1..MaxVal)
EmptyDict == [k \in {} |-> NULL]

\* The documents a request body may hold: any subset of the keys, "id"
\* possibly null, the data fields with a value.
DocKeys == {"id"} \cup DataFields
KeyVals(k) == IF k = "id" THEN {NULL} \cup ReqIds ELSE 1..MaxVal
Docs ==
    { d \in UNION { [D -> {NULL} \cup ReqIds \cup Vals] : D \in SUBSET DocKeys } :
        \A k \in DOMAIN d : d[k] \in KeyVals(k) }
\* The extra attributes a caller of save_from_request injects.
ExtraAttrs == {EmptyDict} \cup { [age |-> v] : v \in 1..MaxVal }

(***************************************************************************)
(* Python values a view returns: a bare value or a tuple.                  *)
(***************************************************************************)
Bare(v) == [isTuple |-> FALSE, val |-> v, items |-> <<>>]
Tuple(s) == [isTuple |-> TRUE, val |-> NULL, items |-> s]

\* Response bodies: a message string, a document, or a list of documents.
MsgBody(m) == [kind |-> "msg", msg |-> m, doc |-> EmptyDict, list |-> {}]
DocBody(d) == [kind |-> "doc", msg |-> "", doc |-> d, list |-> {}]
ListBody(l) == [kind |-> "list", msg |-> "", doc |-> EmptyDict, list |-> l]

\* A plausible slip: a two-tuple's status code is dropped.
unpack_DropsCode(v) ==
    IF ~v.isTuple THEN <<v.val, 200, EmptyDict>>
    ELSE IF Len(v.items) = 3 THEN v.items
    ELSE IF Len(v.items) = 2 THEN <<v.items[1], 200, EmptyDict>>
    ELSE <<v, 200, EmptyDict>>

\* unpack(value): a three tuple of data, code and headers.
unpack(v) ==
    IF ~v.isTuple THEN <<v.val, 200, EmptyDict>>
    ELSE IF Len(v.items) = 3 THEN <<v.items[1], v.items[2], v.items[3]>>
    ELSE IF Len(v.items) = 2 THEN <<v.items[1], v.items[2], EmptyDict>>
    ELSE <<v, 200, EmptyDict>>

(***************************************************************************)
(* The session: a unit of work over the repository s.  children and rel    *)
(* are the session's view (identity map), db the committed content.        *)
(* fresh holds the transient objects load() constructed, keyed by the key  *)
(* the flush will assign; pending is the set of those added to the         *)
(* session.  commit writes the session's view into db.                     *)
(***************************************************************************)
Repo == [children |-> children, rel |-> rel, nextId |-> nextId, parents |-> parents]

Begin(s) ==
    [db |-> s, children |-> s.children, rel |-> s.rel, fresh |-> EmptyDict,
     pending |-> {}, obj |-> NULL, doc |-> EmptyDict, loaded |-> EmptyDict,
     log |-> <<>>, ret |-> Bare(MsgBody("")), raised |-> ""]

Logged(u, ev) == [u EXCEPT !.log = Append(@, ev)]
Return(u, v) == [u EXCEPT !.ret = v]
\* An exception leaves the view: nothing is returned.
Raise(u, e) == [u EXCEPT !.raised = e]

\* query.get(id): the key of the stored entity, or None.
QueryGet(u, id) == IF id \in DOMAIN u.children THEN id ELSE NULL
QueryGetParent(u, rid) == IF rid \in u.db.parents THEN rid ELSE NULL

\* session.add(obj): the session holds each object once; a persistent
\* object is in the session already.
SessionAdd(u, k) ==
    Logged([u EXCEPT !.pending = @ \cup (IF k \in DOMAIN u.fresh THEN {k} ELSE {})], "add")

\* A plausible slip: the append is left out.
CollectionAppend_Dropped(u, p, k) == u

\* collection.append(obj): the object joins the parent's collection, and the
\* save-update cascade brings a transient object into the session.
CollectionAppend(u, p, k) ==
    Logged([u EXCEPT !.rel = @ \cup {<<p, k>>},
                     !.pending = @ \cup (IF k \in DOMAIN u.fresh THEN {k} ELSE {})],
           "append")

\* session.delete(obj): the row and its memberships go with the next flush.
SessionDelete(u, k) ==
    Logged([u EXCEPT !.children = [c \in DOMAIN u.children \ {k} |-> u.children[c]],
                     !.rel = {m \in u.rel : m[2] # k}],
           "delete")

SessionFlush(u) == Logged(u, "flush")

\* session.commit(): pending objects are inserted with fresh keys; the
\* session's view becomes the committed content.
SessionCommit(u) ==
    LET ins == u.children @@ [k \in u.pending |-> u.fresh[k]]
    IN Logged([u EXCEPT !.children = ins,
                        !.pending = {},
                        !.db = [children |-> ins,
                                rel |-> {m \in u.rel : m[2] \in DOMAIN ins},
                                nextId |-> u.db.nextId + Cardinality(u.pending),
                                parents |-> u.db.parents]],
              "commit")

(***************************************************************************)
(* ModelSerializer (flask_restalchemy.serialization.modelserializer):      *)
(* load writes the document's fields into a new or an existing entity,     *)
(* dump reads an entity into a document.  The primary key is generated by  *)
(* the store on create and is immutable afterwards, so load never writes   *)
(* it.                                                                     *)
(***************************************************************************)
DictGet(d, k) == IF k \in DOMAIN d THEN d[k] ELSE NULL

\* A plausible slip: the update runs the wrong way round, so the stored
\* values win over the request's.
DictUpdate_KeepsOld(d, other) ==
    [k \in DOMAIN d \cup DOMAIN other |-> IF k \in DOMAIN d THEN d[k] ELSE other[k]]

\* dict.update: the argument's keys override.
DictUpdate(d, other) ==
    [k \in DOMAIN d \cup DOMAIN other |-> IF k \in DOMAIN other THEN other[k] ELSE d[k]]

SerializerLoad(u, doc, existing) ==
    IF existing = NULL
    THEN LET k == u.db.nextId
         IN Logged([u EXCEPT !.fresh = (k :> [f \in DataFields |-> DictGet(doc, f)]),
                             !.obj = k, !.loaded = doc], "load")
    ELSE Logged([u EXCEPT !.children[existing] =
                              [f \in DataFields |-> IF f \in DOMAIN doc THEN doc[f] ELSE @[f]],
                          !.obj = existing, !.loaded = doc], "load")

DumpDoc(u, k) ==
    [f \in DocKeys |-> IF f = "id" THEN k ELSE u.children[k][f]]

SerializerDump(u, k) == Logged([u EXCEPT !.doc = DumpDoc(u, k)], "dump")

(***************************************************************************)
(* BaseResource                                                            *)
(***************************************************************************)
\* The attributes __init__ leaves on the handler.
BaseResource_self == {"_resource_model", "_serializer", "_session_getter"}

\* setattr(model_obj, attr_name, value) for each extra attribute, on the
\* object load constructed.
SetAttrs(u, extra_attrs) ==
    [u EXCEPT !.fresh[u.obj] =
        [f \in DataFields |-> IF f \in DOMAIN extra_attrs THEN extra_attrs[f] ELSE @[f]]]

\* A plausible slip: the object is saved through _save_model and committed
\* once more afterwards.
save_from_request_CommitsTwice(s, document, extra_attrs) ==
    LET u1 == SerializerLoad(Begin(s), document, NULL)
        model_obj == u1.obj
        u2 == SetAttrs(u1, extra_attrs)
        u3 == SessionCommit(SessionCommit(SessionAdd(u2, model_obj)))
        u4 == SerializerDump(u3, model_obj)
    IN Return(u4, Bare(DocBody(u4.doc)))

save_from_request(s, document, extra_attrs) ==
    LET u1 == SerializerLoad(Begin(s), document, NULL)
        model_obj == u1.obj
        u2 == SetAttrs(u1, extra_attrs)
        u3 == SessionCommit(SessionAdd(u2, model_obj))
        u4 == SerializerDump(u3, model_obj)
    IN Return(u4, Bare(DocBody(u4.doc)))

\* A plausible slip: the commit runs ahead of the before-commit hook.
_save_model_CommitFirst(u, model_obj, method) ==
    LET u1 == SessionCommit(SessionAdd(u, model_obj))
        u2 == IF method = "POST" THEN Logged(u1, "before_post_commit")
              ELSE IF method = "PUT" THEN Logged(u1, "before_put_commit")
              ELSE u1
    IN IF method = "POST" THEN Logged(u2, "after_post_commit")
       ELSE IF method = "PUT" THEN Logged(u2, "after_put_commit")
       ELSE u2

_save_model(u, model_obj, method) ==
    LET u1 == SessionAdd(u, model_obj)
        u2 == IF method = "POST" THEN Logged(u1, "before_post_commit")
              ELSE IF method = "PUT" THEN Logged(u1, "before_put_commit")
              ELSE u1
        u3 == SessionCommit(u2)
    IN IF method = "POST" THEN Logged(u3, "after_post_commit")
       ELSE IF method = "PUT" THEN Logged(u3, "after_put_commit")
       ELSE u3

_save_serialized(u, serialized_data, existing_model) ==
    LET u1 == SerializerLoad(u, serialized_data, existing_model)
        method == IF existing_model # NULL THEN "PUT" ELSE "POST"
        u2 == _save_model(u1, u1.obj, method)
    IN SerializerDump(u2, u1.obj)

(***************************************************************************)
(* ModelResource                                                           *)
(***************************************************************************)
\* query_from_request without filters: every dumped item of the query.
QueryFromRequest(u, keys) == ListBody({ DumpDoc(u, k) : k \in keys })

\* A plausible slip: the not-found answer goes out without its status code.
ModelResource_get_Drops404(s, id) ==
    LET u == Begin(s)
        data == QueryGet(u, id)
    IN IF id # NULL
       THEN IF data = NULL THEN Return(u, Bare(MsgBody(NOT_FOUND_ERROR)))
            ELSE LET u1 == SerializerDump(u, data) IN Return(u1, Bare(DocBody(u1.doc)))
       ELSE Return(u, Bare(QueryFromRequest(u, DOMAIN u.children)))

ModelResource_get(s, id) ==
    LET u == Begin(s)
        data == QueryGet(u, id)
    IN IF id # NULL
       THEN IF data = NULL THEN Return(u, Tuple(<<MsgBody(NOT_FOUND_ERROR), 404>>))
            ELSE LET u1 == SerializerDump(u, data) IN Return(u1, Bare(DocBody(u1.doc)))
       ELSE Return(u, Bare(QueryFromRequest(u, DOMAIN u.children)))

\* A plausible slip: the existing entity is not handed on, so every PUT
\* saves a new entity.
ModelResource_put_CreatesNew(s, id, request_data) ==
    LET u == Begin(s)
        data == QueryGet(u, id)
    IN IF data = NULL THEN Return(u, Tuple(<<MsgBody(NOT_FOUND_ERROR), 404>>))
       ELSE LET u1 == SerializerDump(u, data)
                serialized == DictUpdate(u1.doc, request_data)
                u2 == _save_serialized(u1, serialized, NULL)
            IN Return(u2, Bare(DocBody(u2.doc)))

ModelResource_put(s, id, request_data) ==
    LET u == Begin(s)
        data == QueryGet(u, id)
    IN IF data = NULL THEN Return(u, Tuple(<<MsgBody(NOT_FOUND_ERROR), 404>>))
       ELSE LET u1 == SerializerDump(u, data)
                serialized == DictUpdate(u1.doc, request_data)
                u2 == _save_serialized(u1, serialized, data)
            IN Return(u2, Bare(DocBody(u2.doc)))

\* A plausible slip: the delete is flushed but never committed.
ModelResource_delete_NoCommit(s, id) ==
    LET u == Begin(s)
        data == QueryGet(u, id)
    IN IF data = NULL THEN Return(u, Tuple(<<MsgBody(NOT_FOUND_ERROR), 404>>))
       ELSE Return(SessionFlush(SessionDelete(u, data)), Tuple(<<MsgBody(""), 204>>))

ModelResource_delete(s, id) ==
    LET u == Begin(s)
        data == QueryGet(u, id)
    IN IF data = NULL THEN Return(u, Tuple(<<MsgBody(NOT_FOUND_ERROR), 404>>))
       ELSE Return(SessionCommit(SessionFlush(SessionDelete(u, data))),
                   Tuple(<<MsgBody(""), 204>>))

ModelResource_post(s, document) ==
    LET u == _save_serialized(Begin(s), document, NULL)
    IN Return(u, Tuple(<<DocBody(u.doc), 201>>))

(***************************************************************************)
(* ToManyRelationResource                                                  *)
(***************************************************************************)
\* __init__ goes through BaseResource.__init__ and then sets the relation
\* property and the related model.
ToManyRelationResource_self ==
    BaseResource_self \cup {"_relation_property", "_related_model"}

\* The parent's relation collection (getattr(related_obj, key)).
Collection(u, p) == { m[2] : m \in { x \in u.rel : x[1] = p } }

\* A plausible slip: the relationship constraint is left out of the query.
_query_related_obj_Unscoped(u, relation_id, id) == QueryGet(u, id)

\* Query the resource model by id with the relationship as a constraint.
_query_related_obj(u, relation_id, id) ==
    LET related == IF relation_id \in u.db.parents /\ <<relation_id, id>> \in u.rel
                   THEN relation_id ELSE NULL
    IN IF related = NULL THEN NULL ELSE QueryGet(u, id)

ToManyRelationResource_get(s, relation_id, id) ==
    LET u == Begin(s)
    IN IF id # NULL /\ id # 0       \* "if id:"
       THEN LET requested_obj == _query_related_obj(u, relation_id, id)
            IN IF requested_obj = NULL
               THEN Return(u, Tuple(<<MsgBody(NOT_FOUND_ERROR), 404>>))
               ELSE LET u1 == SerializerDump(u, requested_obj)
                    IN Return(u1, Tuple(<<DocBody(u1.doc), 200>>))
       ELSE LET related_obj == QueryGetParent(u, relation_id)
            IN IF related_obj = NULL
               THEN Return(u, Tuple(<<MsgBody(NOT_FOUND_ERROR), 404>>))
               ELSE Return(u, Bare(QueryFromRequest(u, Collection(u, related_obj))))

\* A plausible slip: attaching goes through the create protocol.
append_existent_AsCreate(u, parent, resource_id) ==
    LET resource_obj == QueryGet(u, resource_id)
    IN IF resource_obj = NULL THEN Return(u, Tuple(<<MsgBody(NOT_FOUND_ERROR), 404>>))
       ELSE LET u1 == _save_model(CollectionAppend(u, parent, resource_obj), resource_obj, "POST")
                u2 == SerializerDump(u1, resource_obj)
            IN Return(u2, Tuple(<<DocBody(u2.doc), 200>>))

append_existent(u, parent, resource_id) ==
    LET resource_obj == QueryGet(u, resource_id)
    IN IF resource_obj = NULL THEN Return(u, Tuple(<<MsgBody(NOT_FOUND_ERROR), 404>>))
       ELSE LET u1 == SessionCommit(CollectionAppend(u, parent, resource_obj))
                u2 == SerializerDump(u1, resource_obj)
            IN Return(u2, Tuple(<<DocBody(u2.doc), 200>>))

\* A plausible slip: a body whose id names no stored child is taken for a
\* creation.
ToManyRelationResource_post_CreatesOnMissing(s, relation_id, data_dict) ==
    LET u == Begin(s)
        related_obj == QueryGetParent(u, relation_id)
        resource_id == DictGet(data_dict, "id")
    IN IF related_obj = NULL THEN Return(u, Tuple(<<MsgBody(NOT_FOUND_ERROR), 404>>))
       ELSE IF QueryGet(u, resource_id) # NULL THEN append_existent(u, related_obj, resource_id)
       ELSE LET u1 == SerializerLoad(u, data_dict, NULL)
                new_obj == u1.obj
                u2 == SessionAdd(u1, new_obj)
                u3 == CollectionAppend(u2, related_obj, new_obj)
                u4 == _save_model(u3, new_obj, "POST")
                u5 == SerializerDump(u4, new_obj)
            IN Return(u5, Tuple(<<DocBody(u5.doc), 201>>))

ToManyRelationResource_post(s, relation_id, data_dict) ==
    LET u == Begin(s)
        related_obj == QueryGetParent(u, relation_id)
        resource_id == DictGet(data_dict, "id")
    IN IF related_obj = NULL THEN Return(u, Tuple(<<MsgBody(NOT_FOUND_ERROR), 404>>))
       ELSE IF resource_id # NULL THEN append_existent(u, related_obj, resource_id)
       ELSE LET u1 == SerializerLoad(u, data_dict, NULL)
                new_obj == u1.obj
                u2 == SessionAdd(u1, new_obj)
                u3 == CollectionAppend(u2, related_obj, new_obj)
                u4 == _save_model(u3, new_obj, "POST")
                u5 == SerializerDump(u4, new_obj)
            IN Return(u5, Tuple(<<DocBody(u5.doc), 201>>))

\* A plausible slip: the entity is looked up by the id of the body when the
\* body has one.
ToManyRelationResource_put_ByBodyId(s, relation_id, id, request_data) ==
    LET u == Begin(s)
        key == IF DictGet(request_data, "id") # NULL THEN request_data["id"] ELSE id
        requested_obj == _query_related_obj(u, relation_id, key)
    IN IF requested_obj = NULL THEN Return(u, Tuple(<<MsgBody(NOT_FOUND_ERROR), 404>>))
       ELSE LET u1 == SerializerDump(u, requested_obj)
                serialized == DictUpdate(u1.doc, request_data)
                u2 == _save_serialized(u1, serialized, requested_obj)
            IN Return(u2, Bare(DocBody(u2.doc)))

ToManyRelationResource_put(s, relation_id, id, request_data) ==
    LET u == Begin(s)
        requested_obj == _query_related_obj(u, relation_id, id)
    IN IF requested_obj = NULL THEN Return(u, Tuple(<<MsgBody(NOT_FOUND_ERROR), 404>>))
       ELSE LET u1 == SerializerDump(u, requested_obj)
                serialized == DictUpdate(u1.doc, request_data)
                u2 == _save_serialized(u1, serialized, requested_obj)
            IN Return(u2, Bare(DocBody(u2.doc)))

ToManyRelationResource_delete(s, relation_id, id) ==
    LET u == Begin(s)
        requested_obj == _query_related_obj(u, relation_id, id)
    IN IF requested_obj = NULL THEN Return(u, Tuple(<<MsgBody(NOT_FOUND_ERROR), 404>>))
       ELSE Return(SessionCommit(SessionFlush(SessionDelete(u, requested_obj))),
                   Tuple(<<MsgBody(""), 204>>))

(***************************************************************************)
(* CollectionPropertyResource                                              *)
(***************************************************************************)
\* __init__ calls BaseResource.__init__ directly, past the one of
\* ToManyRelationResource, and then sets the related model and the
\* property name.
CollectionPropertyResource_self ==
    BaseResource_self \cup {"_related_model", "_property_name"}

\* put and delete are the inherited ones of ToManyRelationResource.  Both
\* start with _query_related_obj, which reads self._relation_property
\* while it builds its query: on a handler without that attribute the
\* read raises AttributeError before anything is asked of the store.
CollectionPropertyResource_put(s, relation_id, id, request_data) ==
    IF "_relation_property" \in CollectionPropertyResource_self
    THEN ToManyRelationResource_put(s, relation_id, id, request_data)
    ELSE Raise(Begin(s), "AttributeError")

CollectionPropertyResource_delete(s, relation_id, id) ==
    IF "_relation_property" \in CollectionPropertyResource_self
    THEN ToManyRelationResource_delete(s, relation_id, id)
    ELSE Raise(Begin(s), "AttributeError")

\* A plausible slip: the listing ends with a commit.
CollectionPropertyResource_get_Commits(s, relation_id, id) ==
    LET u == Begin(s)
        related_obj == QueryGetParent(u, relation_id)
    IN IF related_obj = NULL THEN Return(u, Tuple(<<MsgBody(NOT_FOUND_ERROR), 404>>))
       ELSE Return(SessionCommit(u), Bare(QueryFromRequest(u, Collection(u, related_obj))))

CollectionPropertyResource_get(s, relation_id, id) ==
    LET u == Begin(s)
        related_obj == QueryGetParent(u, relation_id)
    IN IF related_obj = NULL THEN Return(u, Tuple(<<MsgBody(NOT_FOUND_ERROR), 404>>))
       ELSE Return(u, Bare(QueryFromRequest(u, Collection(u, related_obj))))

\* A plausible slip: the override is missing and the inherited post runs.
CollectionPropertyResource_post_Inherited(s, relation_id, data_dict) ==
    ToManyRelationResource_post(s, relation_id, data_dict)

CollectionPropertyResource_post(s, relation_id, data_dict) ==
    Return(Begin(s), Tuple(<<MsgBody(NOT_ALLOWED), 405>>))

(***************************************************************************)
(* Requests.  dispatch_request calls the view for the verb and unpacks     *)
(* what it returns.                                                        *)
(***************************************************************************)
Request(h, verb, rid, id, doc) ==
    [h |-> h, verb |-> verb, rid |-> rid, id |-> id, doc |-> doc, extra |-> EmptyDict]
NoRequest == Request("none", "none", NULL, NULL, EmptyDict)
NoRepo == [children |-> EmptyDict, rel |-> {}, nextId |-> 0, parents |-> {}]
NoResponse == <<MsgBody(""), 0, EmptyDict>>

\* An exception of the view leaves dispatch_request as well; the framework
\* answers the request with an internal server error.
ServerError(e) == <<MsgBody(e), 500, EmptyDict>>

dispatch_request(r, u) ==
    /\ pc = "idle"
    /\ u.db.nextId <= MaxId + 1
    /\ pc' = "done"
    /\ req' = r
    /\ pre' = Repo
    /\ children' = u.db.children
    /\ rel' = u.db.rel
    /\ nextId' = u.db.nextId
    /\ parents' = u.db.parents
    /\ log' = u.log
    /\ loaded' = u.loaded
    /\ deleted' = deleted \cup (DOMAIN children \ DOMAIN u.db.children)
    /\ resp' = IF u.raised # "" THEN ServerError(u.raised) ELSE unpack(u.ret)
    /\ UNCHANGED <<varsUnpack, varsDeco, varsDT, varsCtor>>

ModelGet ==
    \E id \in ReqIds \cup {NULL} :
        dispatch_request(Request("model", "GET", NULL, id, EmptyDict), ModelResource_get(Repo, id))

ModelPut ==
    \E id \in ReqIds, d \in Docs :
        dispatch_request(Request("model", "PUT", NULL, id, d), ModelResource_put(Repo, id, d))

ModelDelete ==
    \E id \in ReqIds :
        dispatch_request(Request("model", "DELETE", NULL, id, EmptyDict), ModelResource_delete(Repo, id))

ModelPost ==
    \E d \in Docs :
        dispatch_request(Request("model", "POST", NULL, NULL, d), ModelResource_post(Repo, d))

ToManyGet ==
    \E rid \in ReqParentIds, id \in ReqIds \cup {NULL} :
        dispatch_request(Request("tomany", "GET", rid, id, EmptyDict),
                         ToManyRelationResource_get(Repo, rid, id))

ToManyPost ==
    \E rid \in ReqParentIds, d \in Docs :
        dispatch_request(Request("tomany", "POST", rid, NULL, d),
                         ToManyRelationResource_post(Repo, rid, d))

ToManyPut ==
    \E rid \in ReqParentIds, id \in ReqIds, d \in Docs :
        dispatch_request(Request("tomany", "PUT", rid, id, d),
                         ToManyRelationResource_put(Repo, rid, id, d))

ToManyDelete ==
    \E rid \in ReqParentIds, id \in ReqIds :
        dispatch_request(Request("tomany", "DELETE", rid, id, EmptyDict),
                         ToManyRelationResource_delete(Repo, rid, id))

PropertyGet ==
    \E rid \in ReqParentIds, id \in ReqIds \cup {NULL} :
        dispatch_request(Request("property", "GET", rid, id, EmptyDict),
                         CollectionPropertyResource_get(Repo, rid, id))

PropertyPost ==
    \E rid \in ReqParentIds, d \in Docs :
        dispatch_request(Request("property", "POST", rid, NULL, d),
                         CollectionPropertyResource_post(Repo, rid, d))

PropertyPut ==
    \E rid \in ReqParentIds, id \in ReqIds, d \in Docs :
        dispatch_request(Request("property", "PUT", rid, id, d),
                         CollectionPropertyResource_put(Repo, rid, id, d))

PropertyDelete ==
    \E rid \in ReqParentIds, id \in ReqIds :
        dispatch_request(Request("property", "DELETE", rid, id, EmptyDict),
                         CollectionPropertyResource_delete(Repo, rid, id))

\* A view of a subclass calls save_from_request; extra holds the
\* attributes it injects.
SaveFromRequest ==
    \E d \in Docs, extra \in ExtraAttrs :
        dispatch_request([h |-> "base", verb |-> "SAVE", rid |-> NULL, id |-> NULL,
                          doc |-> d, extra |-> extra],
                         save_from_request(Repo, d, extra))

\* The response leaves; the handler and its session are gone.
Reply ==
    /\ pc = "done"
    /\ pc' = "idle"
    /\ req' = NoRequest
    /\ pre' = NoRepo
    /\ log' = <<>>
    /\ loaded' = EmptyDict
    /\ resp' = NoResponse
    /\ UNCHANGED <<parents, children, rel, nextId, deleted, varsUnpack, varsDeco, varsDT, varsCtor>>

InitRes ==
    /\ parents \in { 1..n : n \in 0..MaxParent }
    /\ children = EmptyDict
    /\ rel = {}
    /\ nextId = 1
    /\ pc = "idle"
    /\ req = NoRequest
    /\ pre = NoRepo
    /\ log = <<>>
    /\ loaded = EmptyDict
    /\ deleted = {}
    /\ resp = NoResponse

InitUnpackIdle == value = Bare(0) /\ unpacked = <<>>
InitDecoIdle ==
    decorators = <<>> /\ chain = <<>> /\ phase = "done" /\ depth = 0 /\ trace = <<>>
InitDTIdle == dt = <<>> /\ wire = <<>> /\ back = <<>>
InitCtorIdle == given = <<>> /\ built = <<>>

\* No request under way and an empty store: the resource layer at rest.
InitResIdle == InitRes /\ parents = {}

Init == InitRes /\ InitUnpackIdle /\ InitDecoIdle /\ InitDTIdle /\ InitCtorIdle

Next ==
    \/ ModelGet \/ ModelPut \/ ModelDelete \/ ModelPost
    \/ ToManyGet \/ ToManyPost \/ ToManyPut \/ ToManyDelete
    \/ PropertyGet \/ PropertyPost \/ PropertyPut \/ PropertyDelete
    \/ SaveFromRequest
    \/ Reply

Spec == Init /\ [][Next]_vars

(***************************************************************************)
(* Properties of the resource handlers.                                    *)
(***************************************************************************)
Count(seq, ev) == Cardinality({ i \in 1..Len(seq) : seq[i] = ev })
Done(h, verb) == pc = "done" /\ req.h = h /\ req.verb = verb
NotFound == <<MsgBody(NOT_FOUND_ERROR), 404, EmptyDict>>
PreDump(k) == [f \in DocKeys |-> IF f = "id" THEN k ELSE pre.children[k][f]]
NowDump(k) == [f \in DocKeys |-> IF f = "id" THEN k ELSE children[k][f]]
\* The child req.id was a member of parent req.rid's collection on arrival.
PreMember ==
    /\ req.rid \in pre.parents
    /\ req.id \in DOMAIN pre.children
    /\ <<req.rid, req.id>> \in pre.rel
\* The request addresses an entity its handler finds.
PreFound ==
    \/ req.h = "model" /\ req.id \in DOMAIN pre.children
    \/ req.h = "tomany" /\ PreMember

\* C1: under the to-many handler, GET, PUT and DELETE of a stored child that
\* is not in the named parent's collection (or whose parent is not stored)
\* answer 404 with the not-found body, dump nothing and change nothing.
C1_MembershipEnforced ==
    (/\ pc = "done" /\ req.h = "tomany" /\ req.verb \in {"GET", "PUT", "DELETE"}
     /\ req.id \in DOMAIN pre.children
     /\ ~PreMember)
    => /\ resp = NotFound
       /\ Count(log, "dump") = 0
       /\ Repo = pre

\* C1 witness: the parent has a child in its collection, and the request
\* names another stored child that belongs to a different parent.
C1_Witness ==
    /\ pc = "done" /\ req.h = "tomany" /\ req.verb = "GET"
    /\ req.rid \in pre.parents
    /\ req.id \in DOMAIN pre.children
    /\ <<req.rid, req.id>> \notin pre.rel
    /\ \E c \in DOMAIN pre.children : <<req.rid, c>> \in pre.rel
    /\ \E p \in pre.parents : <<p, req.id>> \in pre.rel
    /\ resp[2] = 404

C3_AttachByReference ==
    (/\ Done("tomany", "POST") /\ req.rid \in pre.parents
     /\ DictGet(req.doc, "id") \in DOMAIN pre.children)
    => /\ children = pre.children
       /\ nextId = pre.nextId
       /\ Count(log, "before_post_commit") = 0
       /\ Count(log, "after_post_commit") = 0
       /\ <<req.rid, req.doc["id"]>> \in rel
       /\ resp = <<DocBody(PreDump(req.doc["id"])), 200, EmptyDict>>

\* C3 witness: the attached child was stored and not yet in the collection.
C3_Witness ==
    /\ Done("tomany", "POST") /\ req.rid \in pre.parents
    /\ DictGet(req.doc, "id") \in DOMAIN pre.children
    /\ <<req.rid, req.doc["id"]>> \notin pre.rel
    /\ <<req.rid, req.doc["id"]>> \in rel
    /\ resp[2] = 200

\* C4: a to-many POST under a stored parent whose document carries no id
\* adds exactly one entity although it is added to the session twice, makes
\* it a member of the parent's collection, fires the before- and the
\* after-create hook once each and returns (dumped new child, 201).
C4_CreateUnderParent ==
    (/\ Done("tomany", "POST") /\ req.rid \in pre.parents
     /\ DictGet(req.doc, "id") = NULL)
    => LET new == DOMAIN children \ DOMAIN pre.children
       IN /\ Cardinality(new) = 1
          /\ DOMAIN pre.children \subseteq DOMAIN children
          /\ \A c \in DOMAIN pre.children : children[c] = pre.children[c]
          /\ Count(log, "add") = 2
          /\ Count(log, "before_post_commit") = 1
          /\ Count(log, "after_post_commit") = 1
          /\ \A k \in new :
               /\ <<req.rid, k>> \in rel
               /\ children[k] = [f \in DataFields |-> DictGet(req.doc, f)]
               /\ resp = <<DocBody(NowDump(k)), 201, EmptyDict>>

\* C4 witness: a child created under a parent that already had one.
C4_Witness ==
    /\ Done("tomany", "POST") /\ req.rid \in pre.parents
    /\ "id" \notin DOMAIN req.doc
    /\ \E c \in DOMAIN pre.children : <<req.rid, c>> \in pre.rel
    /\ Cardinality(DOMAIN children) = Cardinality(DOMAIN pre.children) + 1
    /\ resp[2] = 201

\* C5: DELETE of a found entity answers ('', 204) and removes it; a removed
\* key is never stored again, and DELETE, GET and PUT on it answer 404; a
\* DELETE on a key that is not stored answers 404 and changes nothing.
C5_DeleteIdempotent ==
    /\ deleted \cap DOMAIN children = {}
    /\ (pc = "done" /\ req.verb = "DELETE" /\ PreFound)
       => /\ resp = <<MsgBody(""), 204, EmptyDict>>
          /\ req.id \notin DOMAIN children
          /\ req.id \in deleted
    /\ (/\ pc = "done" /\ req.h \in {"model", "tomany"}
        /\ req.verb \in {"DELETE", "GET", "PUT"}
        /\ req.id \in deleted /\ req.id \notin DOMAIN pre.children)
       => resp = NotFound /\ Repo = pre
    /\ (/\ pc = "done" /\ req.h \in {"model", "tomany"} /\ req.verb = "DELETE"
        /\ req.id \notin DOMAIN pre.children)
       => resp = NotFound /\ Repo = pre

\* C5 witness: a DELETE on a key an earlier DELETE removed.
C5_Witness ==
    /\ pc = "done" /\ req.h = "model" /\ req.verb = "DELETE"
    /\ req.id \in deleted /\ req.id \notin DOMAIN pre.children
    /\ resp[2] = 404

\* C6: PUT is idempotent: the same PUT applied again to the stored state a
\* PUT left behind leaves that state as it is and returns the same document.
C6_PutIdempotent ==
    (pc = "done" /\ req.verb = "PUT" /\ PreFound)
    => LET again == IF req.h = "model"
                    THEN ModelResource_put(Repo, req.id, req.doc)
                    ELSE ToManyRelationResource_put(Repo, req.rid, req.id, req.doc)
       IN /\ again.db = Repo
          /\ unpack(again.ret) = resp

\* C6 witness: a PUT that changed the entity.
C6_Witness ==
    /\ pc = "done" /\ req.h = "model" /\ req.verb = "PUT" /\ PreFound
    /\ children[req.id] # pre.children[req.id]
    /\ resp[2] = 200

\* C7: POST on the property handler answers the not-allowed message with
\* 405 for every parent key and body, and touches neither session nor
\* repository.
C7_PropertyPostRejected ==
    Done("property", "POST")
    => /\ resp = <<MsgBody(NOT_ALLOWED), 405, EmptyDict>>
       /\ log = <<>>
       /\ Repo = pre

\* C7 witness: the parent is stored and the body is a full document.
C7_Witness ==
    /\ Done("property", "POST")
    /\ req.rid \in pre.parents
    /\ DataFields \subseteq DOMAIN req.doc
    /\ resp[2] = 405

\* C11: under the single-entity handler, GET, PUT and DELETE of a key that
\* is not stored return the not-found message with 404 as an ordinary
\* value, perform no load, add, delete, flush or commit and leave the
\* repository as it was; GET of a stored key returns its dump with 200.
C11_NotFoundHandling ==
    /\ (/\ pc = "done" /\ req.h = "model" /\ req.verb \in {"GET", "PUT", "DELETE"}
        /\ req.id # NULL /\ req.id \notin DOMAIN pre.children)
       => /\ resp = NotFound
          /\ \A ev \in {"load", "add", "delete", "flush", "commit"} : Count(log, ev) = 0
          /\ Repo = pre
    /\ (Done("model", "GET") /\ req.id \in DOMAIN pre.children)
       => resp = <<DocBody(PreDump(req.id)), 200, EmptyDict>>

\* C11 witness: a PUT on a key that is not stored while another key is.
C11_Witness ==
    /\ Done("model", "PUT")
    /\ req.id \notin DOMAIN pre.children
    /\ DOMAIN pre.children # {}
    /\ resp[2] = 404

\* C12: a request commits at most once; a POST, PUT, DELETE or
\* save_from_request that succeeds commits exactly once; a GET and a
\* request answered with 404 or 405 never commit.
C12_OneCommitPerRequest ==
    pc = "done"
    => /\ Count(log, "commit") <= 1
       /\ (req.verb \in {"POST", "PUT", "DELETE", "SAVE"} /\ resp[2] \in {200, 201, 204})
          => Count(log, "commit") = 1
       /\ (req.verb = "GET" \/ resp[2] \in {404, 405}) => Count(log, "commit") = 0

\* C12 witness: save_from_request stored a new entity with an injected
\* attribute.
C12_Witness ==
    /\ pc = "done" /\ req.verb = "SAVE"
    /\ req.extra # EmptyDict
    /\ Cardinality(DOMAIN children) = Cardinality(DOMAIN pre.children) + 1
    /\ Count(log, "commit") = 1
    /\ resp[2] = 200

\* C13: PUT and DELETE on the property handler end as they do on the
\* to-many handler for the same repository, parent key, child key and body:
\* the same response, the same stored state, and never an unhandled error.
C13_PropertySameAsToMany ==
    (pc = "done" /\ req.h = "property" /\ req.verb \in {"PUT", "DELETE"})
    => LET same == IF req.verb = "PUT"
                   THEN ToManyRelationResource_put(pre, req.rid, req.id, req.doc)
                   ELSE ToManyRelationResource_delete(pre, req.rid, req.id)
       IN /\ resp[2] # 500
          /\ resp = unpack(same.ret)
          /\ Repo = same.db

\* C15: a PUT on a found entity dumps it, loads the merged document, and
\* then adds, runs the before-update hook, commits and runs the
\* after-update hook, once each and in this order; a single-entity POST
\* does the same with the create hooks; a to-many creation ends with the
\* same four steps with the create hooks; no request fires a hook of the
\* other tag, and no other request fires a hook.
C15_CommitProtocol ==
    /\ (pc = "done" /\ req.verb = "PUT" /\ PreFound)
       => log = <<"dump", "load", "add", "before_put_commit", "commit",
                  "after_put_commit", "dump">>
    /\ Done("model", "POST")
       => log = <<"load", "add", "before_post_commit", "commit",
                  "after_post_commit", "dump">>
    /\ (Done("tomany", "POST") /\ resp[2] = 201)
       => log = <<"load", "add", "append", "add", "before_post_commit", "commit",
                  "after_post_commit", "dump">>
    /\ (/\ pc = "done"
        /\ ~(req.verb = "PUT" /\ PreFound)
        /\ ~Done("model", "POST")
        /\ ~(Done("tomany", "POST") /\ resp[2] = 201))
       => \A ev \in {"before_put_commit", "after_put_commit",
                     "before_post_commit", "after_post_commit"} : Count(log, ev) = 0

\* C15 witness: a PUT that changed a found entity and fired the update hooks.
C15_Witness ==
    /\ Done("model", "PUT") /\ PreFound
    /\ children[req.id] # pre.children[req.id]
    /\ Count(log, "before_put_commit") = 1
    /\ Count(log, "after_put_commit") = 1

\* C16: a to-many POST under a parent that is not stored, or with a body
\* whose id is not the key of a stored child, answers 404, creates nothing,
\* appends nothing, fires no hook and does not commit.
C16_PostFailurePaths ==
    (/\ Done("tomany", "POST")
     /\ \/ req.rid \notin pre.parents
        \/ /\ DictGet(req.doc, "id") # NULL
           /\ DictGet(req.doc, "id") \notin DOMAIN pre.children)
    => /\ resp = NotFound
       /\ Repo = pre
       /\ \A ev \in {"load", "add", "append", "commit", "before_post_commit",
                     "after_post_commit"} : Count(log, ev) = 0

\* C16 witness: the parent is stored and has a child, and the body names a
\* key that is not stored.
C16_Witness ==
    /\ Done("tomany", "POST")
    /\ req.rid \in pre.parents
    /\ \E c \in DOMAIN pre.children : <<req.rid, c>> \in pre.rel
    /\ DictGet(req.doc, "id") # NULL
    /\ DictGet(req.doc, "id") \notin DOMAIN pre.children
    /\ resp[2] = 404

\* C17: a to-many GET with a child id, whatever its value (0 included),
\* answers either the not-found message with 404 or the dump of exactly
\* that child with 200 when it is in the parent's collection; never the
\* listing of the parent's collection.
C17_GetWithIdIsSingleLookup ==
    (Done("tomany", "GET") /\ req.id # NULL)
    => /\ resp[1].kind # "list"
       /\ IF PreMember THEN resp = <<DocBody(PreDump(req.id)), 200, EmptyDict>>
          ELSE resp = NotFound

\* C19: a GET of any handler, answered 200 or 404, performs no add, delete,
\* append, flush or commit and leaves the stored entities, their fields and
\* the relation memberships as they were.
C19_GetReadOnly ==
    (pc = "done" /\ req.verb = "GET")
    => /\ resp[2] \in {200, 404}
       /\ \A ev \in {"add", "delete", "append", "flush", "commit"} : Count(log, ev) = 0
       /\ Repo = pre

\* C19 witness: the property handler listed a parent's collection that is
\* not empty.
C19_Witness ==
    /\ Done("property", "GET")
    /\ resp[2] = 200
    /\ resp[1].kind = "list" /\ resp[1].list # {}
    /\ Repo = pre

\* C20: a PUT on a found entity with key k, whatever id its body carries,
\* leaves the number of stored entities and the key counter as they were,
\* keeps the entity under k, returns it under k, and changes no other
\* entity and no membership.
C20_PutPreservesIdentity ==
    (pc = "done" /\ req.verb = "PUT" /\ PreFound)
    => /\ DOMAIN children = DOMAIN pre.children
       /\ nextId = pre.nextId
       /\ rel = pre.rel
       /\ \A c \in DOMAIN children \ {req.id} : children[c] = pre.children[c]
       /\ resp[2] = 200
       /\ resp[1].doc["id"] = req.id

\* C20 witness: the body carries the key of another stored entity of the
\* same parent.
C20_Witness ==
    /\ Done("tomany", "PUT") /\ PreMember
    /\ "id" \in DOMAIN req.doc
    /\ req.doc["id"] \in DOMAIN pre.children \ {req.id}
    /\ <<req.rid, req.doc["id"]>> \in pre.rel
    /\ DOMAIN req.doc \cap DataFields # {}
    /\ resp[2] = 200

(***************************************************************************)
(* unpack on its own: any value a view may return.                         *)
(***************************************************************************)
MaxAtom == 2        \* data values 0..MaxAtom

Atoms == 0..MaxAtom
Codes == {200, 201, 404}
HeaderVals == {EmptyDict, [Location |-> 1]}
\* Returned tuples of 0 to 4 items: data, code, headers, one item more.
TupleItems ==
    {<<>>}
    \cup { <<a>> : a \in Atoms }
    \cup { <<a, c>> : a \in Atoms, c \in Codes }
    \cup { <<a, c, h>> : a \in Atoms, c \in Codes, h \in HeaderVals }
    \cup { <<a, c, h, x>> : a \in Atoms, c \in Codes, h \in HeaderVals, x \in Atoms }
PyValues == { Bare(a) : a \in Atoms } \cup { Tuple(t) : t \in TupleItems }

InitUnpack ==
    /\ InitResIdle /\ InitDecoIdle /\ InitDTIdle /\ InitCtorIdle
    /\ value \in PyValues
    /\ unpacked = <<>>

Unpack ==
    /\ unpacked = <<>>
    /\ unpacked' = unpack(value)
    /\ UNCHANGED <<value, varsRes, varsDeco, varsDT, varsCtor>>

SpecUnpack == InitUnpack /\ [][Unpack]_vars

\* C9: unpack gives (v, 200, {}) for a value that is no tuple, (value, code,
\* {}) for a pair, the triple itself for a triple, and treats a tuple of any
\* other length as a bare value: (v, 200, {}).
C9_UnpackNormalizes ==
    unpacked # <<>>
    => /\ Len(unpacked) = 3
       /\ ~value.isTuple => unpacked = <<value.val, 200, EmptyDict>>
       /\ (value.isTuple /\ Len(value.items) = 2)
          => unpacked = <<value.items[1], value.items[2], EmptyDict>>
       /\ (value.isTuple /\ Len(value.items) = 3) => unpacked = value.items
       /\ (value.isTuple /\ Len(value.items) \notin {2, 3})
          => unpacked = <<value, 200, EmptyDict>>

\* C9 witness: a four-tuple went through unpack as a bare value.
C9_Witness ==
    /\ unpacked # <<>>
    /\ value.isTuple /\ Len(value.items) = 4
    /\ unpacked[1] = value /\ unpacked[2] = 200

(***************************************************************************)
(* BaseResource.__init__ wraps dispatch_request in the request decorators, *)
(* one loop iteration per decorator; a dispatched request then runs        *)
(* through the wrappers from the outermost inwards and back.               *)
(***************************************************************************)
MaxDecorators == 3  \* request_decorators of up to MaxDecorators entries

DecoratorNames == {"auth", "audit", "cache"}
DecoratorLists == UNION { [1..n -> DecoratorNames] : n \in 0..MaxDecorators }
Event(ev, d) == [ev |-> ev, d |-> d]
Reverse(seq) == [i \in 1..Len(seq) |-> seq[Len(seq) + 1 - i]]

\* A plausible slip: the new decorator is put inside the ones applied before.
Decorate_Inside(wrapped, decorator) == wrapped \o <<decorator>>

\* self.dispatch_request = decorator(self.dispatch_request): the decorator
\* wraps everything applied before it.
Decorate(wrapped, decorator) == <<decorator>> \o wrapped

InitDeco ==
    /\ InitResIdle /\ InitUnpackIdle /\ InitDTIdle /\ InitCtorIdle
    /\ decorators \in DecoratorLists
    /\ chain = <<>>
    /\ phase = "init"
    /\ depth = 0
    /\ trace = <<>>

\* One iteration of "for decorator in request_decorators".
Wrap ==
    /\ phase = "init"
    /\ Len(chain) < Len(decorators)
    /\ chain' = Decorate(chain, decorators[Len(chain) + 1])
    /\ UNCHANGED <<decorators, phase, depth, trace, varsRes, varsUnpack, varsDT, varsCtor>>

\* The handler is constructed; a request arrives at self.dispatch_request.
Dispatch ==
    /\ phase = "init"
    /\ Len(chain) = Len(decorators)
    /\ phase' = "in"
    /\ UNCHANGED <<decorators, chain, depth, trace, varsRes, varsUnpack, varsDT, varsCtor>>

\* The next wrapper is entered and calls what it wraps.
Enter ==
    /\ phase = "in"
    /\ depth < Len(chain)
    /\ depth' = depth + 1
    /\ trace' = Append(trace, Event("enter", chain[depth + 1]))
    /\ UNCHANGED <<decorators, chain, phase, varsRes, varsUnpack, varsDT, varsCtor>>

\* The undecorated dispatch_request runs.
Core ==
    /\ phase = "in"
    /\ depth = Len(chain)
    /\ phase' = "out"
    /\ trace' = Append(trace, Event("dispatch", ""))
    /\ UNCHANGED <<decorators, chain, depth, varsRes, varsUnpack, varsDT, varsCtor>>

\* A wrapper returns to its caller.
Exit ==
    /\ phase = "out"
    /\ depth > 0
    /\ depth' = depth - 1
    /\ trace' = Append(trace, Event("exit", chain[depth]))
    /\ UNCHANGED <<decorators, chain, phase, varsRes, varsUnpack, varsDT, varsCtor>>

Finish ==
    /\ phase = "out"
    /\ depth = 0
    /\ phase' = "done"
    /\ UNCHANGED <<decorators, chain, depth, trace, varsRes, varsUnpack, varsDT, varsCtor>>

NextDeco == Wrap \/ Dispatch \/ Enter \/ Core \/ Exit \/ Finish

SpecDeco == InitDeco /\ [][NextDeco]_vars

Entered == [i \in 1..Len(decorators) |-> trace[i].d]
Exited == [i \in 1..Len(decorators) |-> trace[Len(decorators) + 1 + i].d]
TraceShape ==
    /\ Len(trace) = 2 * Len(decorators) + 1
    /\ \A i \in 1..Len(decorators) : trace[i].ev = "enter"
    /\ trace[Len(decorators) + 1].ev = "dispatch"
    /\ \A i \in 1..Len(decorators) : trace[Len(decorators) + 1 + i].ev = "exit"

\* C8 as stated: the first decorator of the list is the outermost, so a
\* request enters d1, d2, ..., dn, then the undecorated dispatch, and
\* returns through dn, ..., d1.
C8_FirstOutermost ==
    phase = "done"
    => /\ TraceShape
       /\ Entered = decorators
       /\ Exited = Reverse(decorators)

\* C8 amended: the last decorator of the list is the outermost, so a
\* request enters dn, ..., d1, then the undecorated dispatch, and returns
\* through d1, ..., dn.
C8_LastOutermost ==
    phase = "done"
    => /\ TraceShape
       /\ Entered = Reverse(decorators)
       /\ Exited = decorators

\* C8 witness: a request went through two different decorators.
C8_Witness ==
    /\ phase = "done"
    /\ Len(decorators) >= 2
    /\ decorators[1] # decorators[2]
    /\ Len(trace) = 2 * Len(decorators) + 1

(***************************************************************************)
(* Construction of a handler.  A serializer argument is any object: an     *)
(* instance of ModelSerializer or not, accepting attribute assignment or   *)
(* not (None, a string), with its strict attribute unset, False or True.   *)
(* The assert statement is taken as executed.                              *)
(***************************************************************************)
SerializerObject(isModelSerializer, settable, strict) ==
    [isModelSerializer |-> isModelSerializer, settable |-> settable, strict |-> strict]
SerializerObjects ==
    { SerializerObject(TRUE, TRUE, st) : st \in {"unset", "False", "True"} }
    \cup { SerializerObject(FALSE, TRUE, st) : st \in {"unset", "False", "True"} }
    \cup { SerializerObject(FALSE, FALSE, "unset") }

\* The decorator loop of __init__ as a whole.
WrapAll(request_decorators) ==
    LET w[i \in 0..Len(request_decorators)] ==
            IF i = 0 THEN <<>> ELSE Decorate(w[i - 1], request_decorators[i])
    IN w[Len(request_decorators)]

\* What a constructor leaves: the exception it raised ("" for none), the
\* attributes set on the handler, the serializer object as it is afterwards,
\* the wrappers around dispatch_request and how often the session getter
\* was called.
Constructed(raised, self, serializer, dispatch) ==
    [raised |-> raised, self |-> self, serializer |-> serializer,
     dispatch |-> dispatch, getter_calls |-> 0]

BaseResource__init__(serializer, request_decorators) ==
    IF ~serializer.settable
    THEN Constructed("AttributeError", {"_resource_model", "_serializer"}, serializer, <<>>)
    ELSE LET strict == [serializer EXCEPT !.strict = "True"]
         IN IF ~strict.isModelSerializer
            THEN Constructed("AssertionError", {"_resource_model", "_serializer"}, strict, <<>>)
            ELSE Constructed("", BaseResource_self, strict, WrapAll(request_decorators))

ToManyRelationResource__init__(serializer, request_decorators) ==
    LET base == BaseResource__init__(serializer, request_decorators)
    IN IF base.raised # "" THEN base
       ELSE [base EXCEPT !.self = ToManyRelationResource_self]

CollectionPropertyResource__init__(serializer, request_decorators) ==
    LET base == BaseResource__init__(serializer, request_decorators)
    IN IF base.raised # "" THEN base
       ELSE [base EXCEPT !.self = CollectionPropertyResource_self]

ResourceClasses == {"ModelResource", "ToManyRelationResource", "CollectionPropertyResource"}

InitCtor ==
    /\ InitResIdle /\ InitUnpackIdle /\ InitDecoIdle /\ InitDTIdle
    /\ given \in [cls : ResourceClasses, serializer : SerializerObjects,
                  request_decorators : DecoratorLists]
    /\ built = <<>>

Construct ==
    /\ built = <<>>
    /\ built' = IF given.cls = "ModelResource"
                THEN BaseResource__init__(given.serializer, given.request_decorators)
                ELSE IF given.cls = "ToManyRelationResource"
                THEN ToManyRelationResource__init__(given.serializer, given.request_decorators)
                ELSE CollectionPropertyResource__init__(given.serializer,
                                                        given.request_decorators)
    /\ UNCHANGED <<given, varsRes, varsUnpack, varsDeco, varsDT>>

SpecCtor == InitCtor /\ [][Construct]_vars

\* C14: constructing a handler with a serializer that is no ModelSerializer
\* raises at construction, and the rejected serializer object is as it was
\* handed in and the session getter has not been called.
C14_FailFastConstruction ==
    (built # <<>> /\ ~given.serializer.isModelSerializer)
    => /\ built.raised # ""
       /\ built.serializer = given.serializer
       /\ built.getter_calls = 0

(***************************************************************************)
(* DateTimeSerializer.  A string is a sequence of one-character strings;   *)
(* a datetime is its fields and its tzinfo: naive, or aware with a UTC     *)
(* offset in minutes.                                                      *)
(***************************************************************************)
Digits == <<"0", "1", "2", "3", "4", "5", "6", "7", "8", "9">>
IsDigit(c) == \E i \in 1..10 : Digits[i] = c
DigitVal(c) == (CHOOSE i \in 1..10 : Digits[i] = c) - 1
\* "%0wd" % n
Pad(n, w) == [i \in 1..w |-> Digits[((n \div (10 ^ (w - i))) % 10) + 1]]

\* The number a run of digits denotes.
ParseDigits(str) ==
    LET val[i \in 0..Len(str)] == IF i = 0 THEN 0 ELSE 10 * val[i - 1] + DigitVal(str[i])
    IN val[Len(str)]

\* int(str) of an optionally signed run of digits.
IntOf(str) ==
    IF str[1] = "-" THEN 0 - ParseDigits(Tail(str))
    ELSE IF str[1] = "+" THEN ParseDigits(Tail(str))
    ELSE ParseDigits(str)

Naive == [aware |-> FALSE, offset |-> 0]
Aware(minutes) == [aware |-> TRUE, offset |-> minutes]
DateTime(Y, m, d, H, M, S, f, tz) ==
    [ok |-> TRUE, year |-> Y, month |-> m, day |-> d, hour |-> H, minute |-> M,
     second |-> S, microsecond |-> f, tzinfo |-> tz]
\* load raised ValueError.
DateTimeError ==
    [ok |-> FALSE, year |-> 0, month |-> 0, day |-> 0, hour |-> 0, minute |-> 0,
     second |-> 0, microsecond |-> 0, tzinfo |-> Naive]

Abs(n) == IF n < 0 THEN 0 - n ELSE n

\* datetime.isoformat(): YYYY-MM-DDTHH:MM:SS[.ffffff][+HH:MM]
isoformat(v) ==
    Pad(v.year, 4) \o <<"-">> \o Pad(v.month, 2) \o <<"-">> \o Pad(v.day, 2) \o <<"T">>
    \o Pad(v.hour, 2) \o <<":">> \o Pad(v.minute, 2) \o <<":">> \o Pad(v.second, 2)
    \o (IF v.microsecond # 0 THEN <<".">> \o Pad(v.microsecond, 6) ELSE <<>>)
    \o (IF v.tzinfo.aware
        THEN <<IF v.tzinfo.offset < 0 THEN "-" ELSE "+">>
             \o Pad(Abs(v.tzinfo.offset) \div 60, 2) \o <<":">>
             \o Pad(Abs(v.tzinfo.offset) % 60, 2)
        ELSE <<>>)

DateTimeSerializer_dump(v) == isoformat(v) \o <<"Z">>

\* Pieces of DATETIME_RE.match: n digits at pos, a character of cs at pos,
\* the length of the run of digits that starts at pos.
DigitsAt(str, pos, n) == pos + n - 1 <= Len(str) /\ \A i \in pos..(pos + n - 1) : IsDigit(str[i])
CharAt(str, pos, cs) == pos <= Len(str) /\ str[pos] \in cs
DigitRun(str, pos) ==
    Cardinality({ n \in 1..(Len(str) + 1 - pos) : DigitsAt(str, pos, n) })

\* (?P<Y>\d{2,4})- : the greedy year takes 4, 3 or 2 digits, whichever a
\* "-" follows; 0 when none does.
YearLen(str) ==
    IF DigitsAt(str, 1, 4) /\ CharAt(str, 5, {"-"}) THEN 4
    ELSE IF DigitsAt(str, 1, 3) /\ CharAt(str, 4, {"-"}) THEN 3
    ELSE IF DigitsAt(str, 1, 2) /\ CharAt(str, 3, {"-"}) THEN 2
    ELSE 0

\* (?P<m>\d{2})-(?P<d>\d{2})[T ](?P<H>\d{2}):(?P<M>\d{2}) after a year of n digits.
FixedPart(str, n) ==
    /\ n > 0
    /\ DigitsAt(str, n + 2, 2) /\ CharAt(str, n + 4, {"-"})
    /\ DigitsAt(str, n + 5, 2) /\ CharAt(str, n + 7, {"T", " "})
    /\ DigitsAt(str, n + 8, 2) /\ CharAt(str, n + 10, {":"})
    /\ DigitsAt(str, n + 11, 2)

\* (:(?P<S>\d{2}))? at p2; where the match goes on.
HasSeconds(str, p2) == CharAt(str, p2, {":"}) /\ DigitsAt(str, p2 + 1, 2)
AfterSeconds(str, p2) == IF HasSeconds(str, p2) THEN p2 + 3 ELSE p2

\* (\.(?P<f>\d+))? at p3; where the match goes on.
HasFraction(str, p3) == CharAt(str, p3, {"."}) /\ DigitsAt(str, p3 + 1, 1)
AfterFraction(str, p3) == IF HasFraction(str, p3) THEN p3 + 1 + DigitRun(str, p3 + 1) ELSE p3

\* (?P<tz>([\+-]\d{2}:?\d{2})|[Zz])? at p4; <<>> when the group matches nothing.
TzGroup(str, p4) ==
    IF /\ CharAt(str, p4, {"+", "-"}) /\ DigitsAt(str, p4 + 1, 2)
       /\ CharAt(str, p4 + 3, {":"}) /\ DigitsAt(str, p4 + 4, 2)
    THEN SubSeq(str, p4, p4 + 5)
    ELSE IF CharAt(str, p4, {"+", "-"}) /\ DigitsAt(str, p4 + 1, 4)
    THEN SubSeq(str, p4, p4 + 4)
    ELSE IF CharAt(str, p4, {"Z", "z"}) THEN <<str[p4]>>
    ELSE <<>>

NoMatch ==
    [matched |-> FALSE, Y |-> <<>>, m |-> <<>>, d |-> <<>>, H |-> <<>>, M |-> <<>>,
     S |-> <<>>, f |-> <<>>, tz |-> <<>>]

\* The groups of a match with a year of n digits, the optional groups
\* starting at p2 (seconds), p3 (fraction) and p4 (timezone).
Groups(str, n, p2, p3, p4) ==
    [matched |-> TRUE,
     Y |-> SubSeq(str, 1, n),
     m |-> SubSeq(str, n + 2, n + 3),
     d |-> SubSeq(str, n + 5, n + 6),
     H |-> SubSeq(str, n + 8, n + 9),
     M |-> SubSeq(str, n + 11, n + 12),
     S |-> IF HasSeconds(str, p2) THEN SubSeq(str, p2 + 1, p2 + 2) ELSE <<>>,
     f |-> IF HasFraction(str, p3) THEN SubSeq(str, p3 + 1, p4 - 1) ELSE <<>>,
     tz |-> TzGroup(str, p4)]

\* DATETIME_RE.match(serialized).groupdict(): the groups, <<>> for a group
\* that took no part in the match; matched FALSE when there is no match at
\* the start of the string.  Text after the match is ignored.
DATETIME_RE_match(str) ==
    IF ~FixedPart(str, YearLen(str)) THEN NoMatch
    ELSE CHOOSE g \in { Groups(str, n, n + 13, p3, p4) :
                          n \in {YearLen(str)},
                          p3 \in {AfterSeconds(str, YearLen(str) + 13)},
                          p4 \in {AfterFraction(str, AfterSeconds(str, YearLen(str) + 13))} } : TRUE

\* timezone(timedelta(hours=hours, minutes=minutes))
TimeZone(hours, minutes) == Aware(60 * hours + minutes)

\* _parse_tzinfo(offset_str)
_parse_tzinfo(offset_str) ==
    IF offset_str # <<>> /\ offset_str[1] \in {"Z", "z"} THEN Aware(0)
    ELSE IF offset_str # <<>>
    THEN CHOOSE tz \in
           { TimeZone(hours,
                      \* Invert minutes sign if hours == 0
                      IF offset_str[1] = "-" /\ hours = 0 THEN 0 - minutes ELSE minutes) :
               hours \in {IntOf(SubSeq(offset_str, 1, 3))},
               minutes \in {IntOf(SubSeq(offset_str, Len(offset_str) - 1, Len(offset_str)))} } : TRUE
    ELSE Naive

\* datetime(...) and timezone(...) raise ValueError outside these ranges.
ValidDateTime(v) ==
    /\ v.year \in 1..9999 /\ v.month \in 1..12 /\ v.day \in 1..31
    /\ v.hour \in 0..23 /\ v.minute \in 0..59 /\ v.second \in 0..59
    /\ v.microsecond \in 0..999999
    /\ Abs(v.tzinfo.offset) < 24 * 60

\* datetime(int(Y), int(m), int(d), int(H), int(M), int(S or 0), int(f or 0), tzinfo)
FromParts(parts) ==
    DateTime(IntOf(parts.Y), IntOf(parts.m), IntOf(parts.d), IntOf(parts.H), IntOf(parts.M),
             IF parts.S # <<>> THEN IntOf(parts.S) ELSE 0,
             IF parts.f # <<>> THEN IntOf(parts.f) ELSE 0,
             _parse_tzinfo(parts.tz))

DateTimeSerializer_load(serialized) ==
    CHOOSE r \in
      { IF ~parts.matched THEN DateTimeError
        ELSE CHOOSE c \in { IF ValidDateTime(v) THEN v ELSE DateTimeError :
                              v \in {FromParts(parts)} } : TRUE :
        parts \in {DATETIME_RE_match(serialized)} } : TRUE

\* The datetimes put through the serializer: naive, UTC, and offsets of
\* either sign with and without a minutes part; with and without a
\* fraction of a second.
Offsets == {0, 60, 330, 0 - 30, 0 - 300, 0 - 330}
DateTimes ==
    { DateTime(2020, m, d, H, M, S, f, tz) :
        m \in {1, 12}, d \in {1, 31}, H \in {0, 10, 23}, M \in {0, 59}, S \in {0, 59},
        f \in {0, 123, 500000}, tz \in {Naive} \cup { Aware(o) : o \in Offsets } }

InitDT ==
    /\ InitResIdle /\ InitUnpackIdle /\ InitDecoIdle /\ InitCtorIdle
    /\ dt \in DateTimes
    /\ wire = <<>>
    /\ back = <<>>

Dump ==
    /\ dt # <<>> /\ wire = <<>>
    /\ wire' = DateTimeSerializer_dump(dt)
    /\ UNCHANGED <<dt, back, varsRes, varsUnpack, varsDeco, varsCtor>>

Load ==
    /\ wire # <<>> /\ back = <<>>
    /\ back' = DateTimeSerializer_load(wire)
    /\ UNCHANGED <<dt, wire, varsRes, varsUnpack, varsDeco, varsCtor>>

NextDT == Dump \/ Load

SpecDT == InitDT /\ [][NextDT]_vars

\* C10: load(dump(d)) equals d in every date and time field, in the
\* microseconds and in the timezone information, for naive and for aware d.
C10_DateTimeRoundTrip == back # <<>> => back = dt

(***************************************************************************)
(* load on strings that end in a timezone designator.                      *)
(***************************************************************************)
OffsetStr(sign, hh, mm, colon) ==
    <<sign>> \o Pad(hh, 2) \o (IF colon THEN <<":">> ELSE <<>>) \o Pad(mm, 2)
\* Date and time without a designator, with and without a fraction.
Stamps == { isoformat(DateTime(2020, 1, 1, 10, 0, 0, f, Naive)) : f \in {0, 500000} }
OffsetHours == {0, 1, 5, 12, 23}
OffsetMinutes == {0, 1, 30, 59}
Serialized ==
    Stamps
    \cup { st \o <<z>> : st \in Stamps, z \in {"Z", "z"} }
    \cup { st \o OffsetStr(sign, hh, mm, colon) :
             st \in Stamps, sign \in {"+", "-"}, hh \in OffsetHours, mm \in OffsetMinutes,
             colon \in BOOLEAN }

InitTz ==
    /\ InitResIdle /\ InitUnpackIdle /\ InitDecoIdle /\ InitCtorIdle
    /\ dt = <<>>
    /\ wire \in Serialized
    /\ back = <<>>

SpecTz == InitTz /\ [][Load]_vars

\* C18: load of a string that ends in sHH:MM or sHHMM gives a timezone of
\* s(60*HH + MM) minutes, -05:30 giving -330; one that ends in Z or z gives
\* UTC; one without a designator gives a naive datetime.
C18_OffsetParsing ==
    back # <<>>
    => /\ back.ok
       /\ \A st \in Stamps :
            /\ wire = st => back.tzinfo = Naive
            /\ \A z \in {"Z", "z"} : wire = st \o <<z>> => back.tzinfo = Aware(0)
            /\ \A hh \in OffsetHours, mm \in OffsetMinutes, colon \in BOOLEAN :
                 /\ wire = st \o OffsetStr("+", hh, mm, colon)
                    => back.tzinfo = Aware(60 * hh + mm)
                 /\ wire = st \o OffsetStr("-", hh, mm, colon)
                    => back.tzinfo = Aware(0 - (60 * hh + mm))

====
